---- MODULE Spec2Model ----
(* Expert-finding baselines (candidate/document level, BM25 and language      *)
(* model) and their evaluation layer: a model of the four batch scripts under *)
(* src/baselines.                                                             *)
(*                                                                            *)
(* Numbers. Python floats are modelled exactly: a number is a polynomial in   *)
(* the smoothing constant 1e-10 (written eps) with rational coefficients,     *)
(* <<c0, c1, ...>> standing for c0 + c1*eps + c2*eps^2 + ..., kept without    *)
(* trailing zero coefficients. A rational is <<n, d>> in lowest terms, d > 0. *)
(* math.log is a table of ln(n) in thousandths.                               *)
EXTENDS Integers, Sequences, FiniteSets, TLC

\* ------------------------------------------------------------------ bounds
\* Most answers a corpus holds.
MaxAnswers == 2
\* Largest cut-off k handed to calculate_precision_at_k.
MaxK == 5
\* Longest relevant-expert list handed to the evaluation functions.
MaxRelevant == 2
\* Most rows of the tag statistics CSV, and most judgment records.
MaxTags == 2
MaxRecords == 2
\* Largest count in the term statistics handed to a directly called function.
MaxCount == 3
\* scroll requests the server answers with a full page within one call
MaxPages == 2
\* search_all_with_scroll calls on one client
MaxCalls == 2

\* --------------------------------------------------------------- rationals
Abs(x) == IF x < 0 THEN -x ELSE x

RECURSIVE GCD(_, _)
GCD(a, b) == IF b = 0 THEN a ELSE GCD(b, a % b)

Rat(n, d) ==
    LET g == GCD(Abs(n), Abs(d))
        s == IF d < 0 THEN -1 ELSE 1
    IN  <<(s * n) \div g, (s * d) \div g>>

RZero == <<0, 1>>
ROne == <<1, 1>>
RInt(n) == <<n, 1>>

RAdd(a, b) ==
    LET g == GCD(a[2], b[2])
    IN  Rat(a[1] * (b[2] \div g) + b[1] * (a[2] \div g), (a[2] \div g) * b[2])

RNeg(a) == <<-a[1], a[2]>>
RSub(a, b) == RAdd(a, RNeg(b))

RMul(a, b) ==
    LET g1 == GCD(Abs(a[1]), b[2])
        g2 == GCD(Abs(b[1]), a[2])
    IN  Rat((a[1] \div g1) * (b[1] \div g2), (a[2] \div g2) * (b[2] \div g1))

\* b is not zero
RDiv(a, b) == RMul(a, Rat(b[2], b[1]))

\* a < b, by continued fractions (no cross product, so no 32-bit overflow)
RECURSIVE RLess(_, _)
RLess(a, b) ==
    LET fa == a[1] \div a[2]
        fb == b[1] \div b[2]
        ra == a[1] % a[2]
        rb == b[1] % b[2]
    IN  IF fa # fb THEN fa < fb
        ELSE IF ra = 0 THEN rb > 0
        ELSE IF rb = 0 THEN FALSE
        ELSE RLess(<<b[2], rb>>, <<a[2], ra>>)

RLeq(a, b) == a = b \/ RLess(a, b)

\* ----------------------------------------------------- numbers (floats)
RECURSIVE Trim(_)
Trim(p) ==
    IF p = <<>> THEN <<>>
    ELSE IF p[Len(p)] = RZero THEN Trim(SubSeq(p, 1, Len(p) - 1))
    ELSE p

Coef(p, i) == IF i <= Len(p) THEN p[i] ELSE RZero
MaxOf(a, b) == IF a < b THEN b ELSE a

NZero == <<>>
NOne == <<ROne>>
NRat(r) == Trim(<<r>>)
NInt(n) == NRat(RInt(n))
\* the literal 1e-10
Eps == <<RZero, ROne>>

NAdd(p, q) == Trim([i \in 1..MaxOf(Len(p), Len(q)) |-> RAdd(Coef(p, i), Coef(q, i))])
NScale(r, p) == Trim([i \in 1..Len(p) |-> RMul(r, p[i])])
NSub(p, q) == NAdd(p, NScale(RInt(-1), q))

RECURSIVE ConvSum(_, _, _, _)
\* sum over j = 1..k of p[j] * q[k + 1 - j]: coefficient k of the product
ConvSum(p, q, k, j) ==
    IF j > k THEN RZero
    ELSE RAdd(RMul(Coef(p, j), Coef(q, k + 1 - j)), ConvSum(p, q, k, j + 1))

NMul(p, q) ==
    IF p = <<>> \/ q = <<>> THEN <<>>
    ELSE Trim([k \in 1..(Len(p) + Len(q) - 1) |-> ConvSum(p, q, k, 1)])

\* division of a number by a rational that is not zero
NDivR(p, r) == NScale(Rat(r[2], r[1]), p)

\* the order of the numbers: eps is smaller than every positive rational the
\* bounded corpora produce, so the lowest differing coefficient decides
RECURSIVE NLessFrom(_, _, _)
NLessFrom(p, q, i) ==
    IF i > MaxOf(Len(p), Len(q)) THEN FALSE
    ELSE IF Coef(p, i) # Coef(q, i) THEN RLess(Coef(p, i), Coef(q, i))
    ELSE NLessFrom(p, q, i + 1)

NLess(p, q) == NLessFrom(p, q, 1)
NLeq(p, q) == p = q \/ NLess(p, q)

\* strictly positive whatever the value of eps > 0 is
NPositive(p) ==
    /\ p # <<>>
    /\ \A i \in 1..Len(p) : RLeq(RZero, p[i])

\* ln(n) in thousandths, n = 1..24
LnMilli ==
    <<0, 693, 1099, 1386, 1609, 1792, 1946, 2079, 2197, 2303, 2398, 2485,
      2565, 2639, 2708, 2773, 2833, 2890, 2944, 2996, 3045, 3091, 3135, 3178>>

\* math.log of a positive rational
math_log(r) == Rat(LnMilli[r[1]] - LnMilli[r[2]], 1000)

\* ------------------------------------------------------------------- text
\* A text is the sequence of its whitespace-separated words (str.split()).
Words == {"tax", "Tax", "law", "laws", "the"}

\* str.lower() of one word
str_lower(w) == IF w = "Tax" THEN "tax" ELSE w

\* nltk's English stop words, among Words
stop_words == {"the"}

\* PorterStemmer.stem of one (lower-case) word
stem(w) == IF w = "laws" THEN "law" ELSE w

lower_split(text) == [i \in 1..Len(text) |-> str_lower(text[i])]

RECURSIVE DropStopWords(_)
DropStopWords(tokens) ==
    IF tokens = <<>> THEN <<>>
    ELSE (IF Head(tokens) \notin stop_words THEN <<Head(tokens)>> ELSE <<>>)
         \o DropStopWords(Tail(tokens))

\* preprocess_text: lower-case, tokenize, drop stop words, stem
preprocess_text(text) ==
    LET kept == DropStopWords(lower_split(text))
    IN  [i \in 1..Len(kept) |-> stem(kept[i])]

\* list.count
Count(s, x) == Cardinality({i \in 1..Len(s) : s[i] = x})

\* x in list
InSeq(x, s) == \E i \in 1..Len(s) : s[i] = x

SeqRange(s) == {s[i] : i \in 1..Len(s)}

RECURSIVE Flatten(_)
\* " ".join(texts).split()
Flatten(texts) == IF texts = <<>> THEN <<>> ELSE Head(texts) \o Flatten(Tail(texts))

\* ------------------------------------------------------------ evaluation
\* A ranking is a sequence of <<expert_id, score>>; relevant_experts is a list.
\* A metric is a rational. A call that can raise returns [err, val].
Ok(v) == [err |-> "none", val |-> v]
Raise(e) == [err |-> e, val |-> RZero]
\* the same for a call that returns a score (a number)
RaiseN(e) == [err |-> e, val |-> NZero]

Variants == {"cand_bm25", "cand_lm", "doc_bm25", "doc_lm"}
CandidateLevel == {"cand_bm25", "cand_lm"}
DocumentLevel == {"doc_bm25", "doc_lm"}

\* ranking[:k], k >= 0
Prefix(s, k) == SubSeq(s, 1, IF k < Len(s) THEN k ELSE Len(s))

\* sum(1 for expert in top_k if expert in relevant_experts)
RelevantIn(top_k, relevant_experts) ==
    Cardinality({i \in 1..Len(top_k) : InSeq(top_k[i][1], relevant_experts)})

PrecisionDividesByTopK(v, relevant_experts, ranking, k) ==
    LET top_k == Prefix(ranking, k)
    IN  IF Len(top_k) = 0 THEN Raise("ZeroDivisionError")
        ELSE Ok(Rat(RelevantIn(top_k, relevant_experts), Len(top_k)))

calculate_precision_at_k(v, relevant_experts, ranking, k) ==
    LET top_k == Prefix(ranking, k)
        relevant_in_top_k == RelevantIn(top_k, relevant_experts)
    IN  IF k > 0 THEN Ok(Rat(relevant_in_top_k, k))
        ELSE IF v \in DocumentLevel THEN Ok(RZero)
        ELSE Raise("ZeroDivisionError")

PrecisionBeforeIncrement(num_relevant_found, rank) == Rat(num_relevant_found - 1, rank)

\* precision_at_k = num_relevant_found / rank
PrecisionAtRank(num_relevant_found, rank) == Rat(num_relevant_found, rank)

LastHit(reciprocal_rank, rank) == Rat(1, rank)

\* if reciprocal_rank == 0: reciprocal_rank = 1 / rank
FirstHit(reciprocal_rank, rank) ==
    IF reciprocal_rank = RZero THEN Rat(1, rank) ELSE reciprocal_rank

RECURSIVE RankLoop(_, _, _, _)
\* for rank, (expert_id, _) in enumerate(ranking, 1): acc is the loop's locals
RankLoop(relevant_experts, ranking, rank, acc) ==
    IF rank > Len(ranking) THEN acc
    ELSE IF InSeq(ranking[rank][1], relevant_experts)
    THEN LET found == acc.num_relevant_found + 1
         IN  RankLoop(relevant_experts, ranking, rank + 1,
                 [num_relevant_found |-> found,
                  average_precision |->
                      RAdd(acc.average_precision, PrecisionAtRank(found, rank)),
                  reciprocal_rank |-> FirstHit(acc.reciprocal_rank, rank)])
    ELSE RankLoop(relevant_experts, ranking, rank + 1, acc)

calculate_map_mrr_and_precision(v, relevant_experts, ranking) ==
    LET acc == RankLoop(relevant_experts, ranking, 1,
                   [num_relevant_found |-> 0, average_precision |-> RZero,
                    reciprocal_rank |-> RZero])
        map_score == IF relevant_experts # <<>>
                     THEN RDiv(acc.average_precision, RInt(Len(relevant_experts)))
                     ELSE RZero
    IN  [map_score |-> map_score,
         reciprocal_rank |-> acc.reciprocal_rank,
         p1 |-> calculate_precision_at_k(v, relevant_experts, ranking, 1).val,
         p2 |-> calculate_precision_at_k(v, relevant_experts, ranking, 2).val,
         p5 |-> calculate_precision_at_k(v, relevant_experts, ranking, 5).val]

\* ------------------------------------------------------------------ corpus
\* data_with_ids.json: a sequence of questions (the dict's order),
\*   [tags |-> sequence of tag names, answers |-> sequence of answers],
\* an answer being [attorney_link |-> expert id, answer_text |-> text].
\* A tag name is a text too (the words of the tag).

RECURSIVE AllAnswers(_)
\* for question_id, content in data.items(): for answer in content["answers"]
AllAnswers(data) ==
    IF data = <<>> THEN <<>> ELSE Head(data).answers \o AllAnswers(Tail(data))

\* one entry per item, whether or not the expert already has one
GroupWithoutMerging(pairs, d) == d \o [i \in 1..Len(pairs) |-> <<pairs[i][1], <<pairs[i][2]>>>>]

RECURSIVE GroupByExpert(_, _)
\* if expert_id not in d: d[expert_id] = []; d[expert_id].append(item)
\* over pairs <<expert_id, item>>; the dict as <<expert_id, items>> in key order
GroupByExpert(pairs, d) ==
    IF pairs = <<>> THEN d
    ELSE LET expert_id == Head(pairs)[1]
             item == Head(pairs)[2]
         IN  IF \E i \in 1..Len(d) : d[i][1] = expert_id
             THEN GroupByExpert(Tail(pairs),
                      [i \in 1..Len(d) |->
                          IF d[i][1] = expert_id
                          THEN <<expert_id, Append(d[i][2], item)>> ELSE d[i]])
             ELSE GroupByExpert(Tail(pairs), Append(d, <<expert_id, <<item>>>>))

load_and_aggregate_data(data) ==
    LET answers == AllAnswers(data)
    IN  GroupByExpert([i \in 1..Len(answers) |->
                          <<answers[i].attorney_link, answers[i].answer_text>>], <<>>)

\* Counter(words), read with .get(term, 0)
Counter(words) == [w \in Words |-> Count(words, w)]

\* d[expert_id] of a dict kept as a sequence of <<key, value>>
Lookup(d, key) == d[CHOOSE i \in 1..Len(d) : d[i][1] = key][2]

RECURSIVE SumLen(_)
SumLen(texts) == IF texts = <<>> THEN 0 ELSE Len(Head(texts)) + SumLen(Tail(texts))

RECURSIVE NSum(_)
\* sum(scores)
NSum(scores) == IF scores = <<>> THEN NZero ELSE NAdd(Head(scores), NSum(Tail(scores)))

\* --------------------------------------------------------------- sorting
RECURSIVE InsertDesc(_, _)
\* entry goes behind every entry whose score is not smaller than its own
InsertDesc(sorted, entry) ==
    IF sorted = <<>> THEN <<entry>>
    ELSE IF NLess(Head(sorted)[2], entry[2]) THEN <<entry>> \o sorted
    ELSE <<Head(sorted)>> \o InsertDesc(Tail(sorted), entry)

RECURSIVE InsertAsc(_, _)
InsertAsc(sorted, entry) ==
    IF sorted = <<>> THEN <<entry>>
    ELSE IF NLess(entry[2], Head(sorted)[2]) THEN <<entry>> \o sorted
    ELSE <<Head(sorted)>> \o InsertAsc(Tail(sorted), entry)

RECURSIVE SortAsc(_, _)
SortAsc(ranking, sorted) ==
    IF ranking = <<>> THEN sorted
    ELSE SortAsc(Tail(ranking), InsertAsc(sorted, Head(ranking)))

Reverse(s) == [i \in 1..Len(s) |-> s[Len(s) + 1 - i]]

\* sorted(ranking, key=...)[::-1]: ascending, then reversed (ties end reversed)
SortedAscendingReversed(ranking) == Reverse(SortAsc(ranking, <<>>))

RECURSIVE SortDesc(_, _)
SortDesc(ranking, sorted) ==
    IF ranking = <<>> THEN sorted
    ELSE SortDesc(Tail(ranking), InsertDesc(sorted, Head(ranking)))

\* sorted(ranking, key=lambda x: x[1], reverse=True): stable, descending
sorted_by_score_reverse(ranking) == SortDesc(ranking, <<>>)

\* A ranking call returns [err, val]: val the ranking, err "none" or the exception.
OkRanking(r) == [err |-> "none", val |-> r]
RaiseRanking(e) == [err |-> e, val |-> <<>>]

\* the first exception among results, or "none"
RECURSIVE FirstErr(_)
FirstErr(results) ==
    IF results = <<>> THEN "none"
    ELSE IF Head(results).err # "none" THEN Head(results).err
    ELSE FirstErr(Tail(results))

Vals(results) == [i \in 1..Len(results) |-> results[i].val]

\* -------------------------------------------------------------------- BM25
\* k1=1.5, b=0.75
k1 == <<3, 2>>
b == <<3, 4>>
Half == <<1, 2>>

\* math.log((total_documents - df + 0.5) / (df + 0.5) + 1)
Idf(df, total_documents) ==
    math_log(RAdd(RDiv(RAdd(RInt(total_documents - df), Half), RAdd(RInt(df), Half)),
                  ROne))

\* idf * (tf * (k1 + 1)) / (tf + k1 * (1 - b + b * (doc_length / avg_doc_length)))
Bm25Formula(term_frequency, doc_length, df, total_documents, avg_doc_length) ==
    RDiv(RMul(Idf(df, total_documents), RMul(RInt(term_frequency), RAdd(k1, ROne))),
         RAdd(RInt(term_frequency),
              RMul(k1, RAdd(RSub(ROne, b),
                            RMul(b, RDiv(RInt(doc_length), avg_doc_length))))))

Bm25TermAddOne(term_frequency, doc_length, df, total_documents, avg_doc_length) ==
    IF avg_doc_length = RZero THEN RaiseN("ZeroDivisionError")
    ELSE Ok(NRat(Bm25Formula(term_frequency + 1, doc_length, df, total_documents,
                             avg_doc_length)))

\* one pass of the loop over the query terms: what the term adds to score
Bm25Term(term_frequency, doc_length, df, total_documents, avg_doc_length) ==
    IF term_frequency = 0 THEN Ok(NZero)
    ELSE IF avg_doc_length = RZero THEN RaiseN("ZeroDivisionError")
    ELSE Ok(NRat(Bm25Formula(term_frequency, doc_length, df, total_documents,
                             avg_doc_length)))

RECURSIVE Bm25Loop(_, _, _, _, _, _)
Bm25Loop(query_terms, words, term_frequencies, total_documents, avg_doc_length, score) ==
    IF query_terms = <<>> THEN Ok(score)
    ELSE LET term == Head(query_terms)
             r == Bm25Term(Count(words, term), Len(words), term_frequencies[term],
                           total_documents, avg_doc_length)
         IN  IF r.err # "none" THEN r
             ELSE Bm25Loop(Tail(query_terms), words, term_frequencies, total_documents,
                           avg_doc_length, NAdd(score, r.val))

calculate_bm25_score(query, document, term_frequencies, total_documents, avg_doc_length) ==
    Bm25Loop(preprocess_text(query), document, term_frequencies, total_documents,
             avg_doc_length, NZero)

\* sum(scores) / len(scores), for a list that is not empty
MeanScore(scores) == NDivR(NSum(scores), RInt(Len(scores)))

\* expert_score over the expert's answers, then / len(answers)
ExpertScoreBm25(query, answers, term_frequencies, total_documents, avg_doc_length) ==
    LET results == [i \in 1..Len(answers) |->
                       calculate_bm25_score(query, answers[i], term_frequencies,
                                            total_documents, avg_doc_length)]
    IN  IF FirstErr(results) # "none" THEN RaiseN(FirstErr(results))
        ELSE IF Len(answers) = 0 THEN RaiseN("ZeroDivisionError")
        ELSE Ok(MeanScore(Vals(results)))

\* the profile of an expert: " ".join(answers).split()
Profile(answers) == Flatten(answers)

rank_experts_bm25(query, expert_answers) ==
    LET all_words == Flatten([i \in 1..Len(expert_answers) |->
                                 Profile(expert_answers[i][2])])
        term_frequencies == Counter(all_words)
        total_documents == Len(expert_answers)
        avg_doc_length == Rat(Len(all_words), total_documents)
        results == [i \in 1..Len(expert_answers) |->
                       ExpertScoreBm25(query, expert_answers[i][2], term_frequencies,
                                       total_documents, avg_doc_length)]
    IN  IF total_documents = 0 THEN RaiseRanking("ZeroDivisionError")
        ELSE IF FirstErr(results) # "none" THEN RaiseRanking(FirstErr(results))
        ELSE OkRanking(sorted_by_score_reverse(
                 [i \in 1..Len(expert_answers) |->
                     <<expert_answers[i][1], results[i].val>>]))

\* ------------------------------------------- language model, candidate level
\* calculate_lambda's default beta
beta_default == 1500

calculate_p_t_d(term, document) ==
    IF Len(document) > 0 THEN Rat(Count(document, term), Len(document)) ELSE RZero

calculate_p_t(term, term_frequencies, total_terms) ==
    IF term_frequencies[term] > 0 THEN Rat(term_frequencies[term], total_terms) ELSE RZero

calculate_lambda(expert_id, expert_answers) ==
    LET n_ca == Len(Profile(Lookup(expert_answers, expert_id)))
    IN  Rat(n_ca, n_ca + beta_default)

RECURSIVE Foreground(_, _, _)
\* for document in expert_answers[expert_id]: += (1 - lambda_value) * p_t_d
Foreground(term, documents, lambda_value) ==
    IF documents = <<>> THEN RZero
    ELSE RAdd(RMul(RSub(ROne, lambda_value), calculate_p_t_d(term, Head(documents))),
              Foreground(term, Tail(documents), lambda_value))

calculate_expert_score(term, expert_id, expert_answers, term_frequencies, total_terms) ==
    LET p_t == calculate_p_t(term, term_frequencies, total_terms)
        lambda_value == calculate_lambda(expert_id, expert_answers)
        background_score == RMul(lambda_value, p_t)
        foreground_score == Foreground(term, Lookup(expert_answers, expert_id),
                                       lambda_value)
    IN  RAdd(background_score, foreground_score)

TermFactorNoFloor(score) == NRat(score)

\* if score == 0: total_score *= 1e-10, else: total_score *= score
TermFactor(score) == IF score = RZero THEN Eps ELSE NRat(score)

RECURSIVE QueryLoop(_, _, _, _, _, _)
QueryLoop(query_terms, expert_id, expert_answers, term_frequencies, total_terms, total_score) ==
    IF query_terms = <<>> THEN total_score
    ELSE QueryLoop(Tail(query_terms), expert_id, expert_answers, term_frequencies,
                   total_terms,
                   NMul(total_score,
                        TermFactor(calculate_expert_score(Head(query_terms), expert_id,
                                       expert_answers, term_frequencies, total_terms))))

calculate_query_score(query, expert_id, expert_answers, term_frequencies, total_terms) ==
    QueryLoop(lower_split(query), expert_id, expert_answers, term_frequencies,
              total_terms, NOne)

rank_experts(query, expert_answers) ==
    LET all_words == Flatten([i \in 1..Len(expert_answers) |->
                                 Profile(expert_answers[i][2])])
        term_frequencies == Counter(all_words)
        total_terms == Len(all_words)
    IN  OkRanking(sorted_by_score_reverse(
            [i \in 1..Len(expert_answers) |->
                <<expert_answers[i][1],
                  calculate_query_score(query, expert_answers[i][1], expert_answers,
                                        term_frequencies, total_terms)>>]))

\* ----------------------------------------------------------- document level
\* words of one answer for the statistics: preprocess_text(text) in the BM25
\* script, text.split() in the language-model script
StatWords(v, text) == IF v = "doc_bm25" THEN preprocess_text(text) ELSE text

load_and_calculate_statistics(v, data) ==
    LET answers == AllAnswers(data)
        words == Flatten([i \in 1..Len(answers) |-> StatWords(v, answers[i].answer_text)])
    IN  [term_frequencies |-> Counter(words),
         total_terms |-> Len(words),
         total_answers |-> Len(answers)]

ScoresSum(scores) == NSum(scores)

RECURSIVE NMaxOf(_)
NMaxOf(scores) ==
    IF Len(scores) = 1 THEN Head(scores)
    ELSE LET m == NMaxOf(Tail(scores))
         IN  IF NLess(Head(scores), m) THEN m ELSE Head(scores)

ScoresMax(scores) == NMaxOf(scores)

\* avg_score = sum(scores) / len(scores)
avg_score(scores) == MeanScore(scores)

\* expert_scores -> expert_ranking -> sorted(...)
AggregateAndSort(expert_scores) ==
    sorted_by_score_reverse([i \in 1..Len(expert_scores) |->
                                <<expert_scores[i][1], avg_score(expert_scores[i][2])>>])

rank_experts_doc_level_bm25(query, data, term_frequencies, total_terms, total_documents, avg_doc_length) ==
    LET answers == AllAnswers(data)
        results == [i \in 1..Len(answers) |->
                       calculate_bm25_score(query, answers[i].answer_text,
                           term_frequencies, total_documents, avg_doc_length)]
    IN  IF FirstErr(results) # "none" THEN RaiseRanking(FirstErr(results))
        ELSE OkRanking(AggregateAndSort(GroupByExpert(
                 [i \in 1..Len(answers) |->
                     <<answers[i].attorney_link, results[i].val>>], <<>>)))

\* beta / (beta + doc_length); beta is a rational
calculate_lambda_doc_level(doc_length, beta) ==
    IF RAdd(beta, RInt(doc_length)) = RZero THEN Raise("ZeroDivisionError")
    ELSE Ok(RDiv(beta, RAdd(beta, RInt(doc_length))))

\* term_frequencies.get(term, 0) / total_terms
calculate_p_tc(term, term_frequencies, total_terms) ==
    IF total_terms = 0 THEN Raise("ZeroDivisionError")
    ELSE Ok(Rat(term_frequencies[term], total_terms))

DocTermScoreNoEps(lambda_doc_level, p_td, p_tc) ==
    NRat(RAdd(RMul(RSub(ROne, lambda_doc_level), p_td), RMul(lambda_doc_level, p_tc)))

\* (1 - lambda_doc_level) * p_td + lambda_doc_level * p_tc + 1e-10
DocTermScore(lambda_doc_level, p_td, p_tc) ==
    NAdd(NRat(RAdd(RMul(RSub(ROne, lambda_doc_level), p_td),
                   RMul(lambda_doc_level, p_tc))), Eps)

RECURSIVE DocLoop(_, _, _, _, _, _)
DocLoop(query_terms, words, term_frequencies, total_terms, lambda_doc_level, score) ==
    IF query_terms = <<>> THEN Ok(score)
    ELSE LET term == Head(query_terms)
             p_tc == calculate_p_tc(term, term_frequencies, total_terms)
             p_td == IF Len(words) > 0 THEN Rat(Count(words, term), Len(words))
                     ELSE RZero
         IN  IF p_tc.err # "none" THEN RaiseN(p_tc.err)
             ELSE DocLoop(Tail(query_terms), words, term_frequencies, total_terms,
                          lambda_doc_level,
                          NMul(score, DocTermScore(lambda_doc_level, p_td, p_tc.val)))

calculate_document_score(query, document, term_frequencies, total_terms, beta) ==
    LET lambda_doc_level == calculate_lambda_doc_level(Len(document), beta)
    IN  IF lambda_doc_level.err # "none" THEN RaiseN(lambda_doc_level.err)
        ELSE DocLoop(query, document, term_frequencies, total_terms,
                     lambda_doc_level.val, NOne)

rank_experts_doc_level(query, data, term_frequencies, total_terms, beta) ==
    LET answers == AllAnswers(data)
        results == [i \in 1..Len(answers) |->
                       calculate_document_score(query, answers[i].answer_text,
                           term_frequencies, total_terms, beta)]
    IN  IF FirstErr(results) # "none" THEN RaiseRanking(FirstErr(results))
        ELSE OkRanking(AggregateAndSort(GroupByExpert(
                 [i \in 1..Len(answers) |->
                     <<answers[i].attorney_link, results[i].val>>], <<>>)))

\* ------------------------------------------------------------ ground truth
\* tagIDs.json is a sequence of <<tag id, tag name>> (ids distinct);
\* selection_tags_lawyers_experts.json a sequence of records
\* [tagID, lawyerID, expert]. experts_by_tag maps every tag id to its list
\* (empty: the key is absent); tag_to_id is a function on the names it holds.
TagIds == {"0", "1"}

\* {v: k for k, v in id_to_tag.items()}: the last id of a name wins
InvertTagIds(id_to_tag) ==
    [name \in {id_to_tag[i][2] : i \in 1..Len(id_to_tag)} |->
        id_to_tag[CHOOSE i \in 1..Len(id_to_tag) :
                      /\ id_to_tag[i][2] = name
                      /\ \A j \in (i + 1)..Len(id_to_tag) : id_to_tag[j][2] # name][1]]

RECURSIVE AppendExperts(_, _)
\* for line in f: if is_expert: experts_by_tag[tID].append(lID)
AppendExperts(by_tag, records) ==
    IF records = <<>> THEN by_tag
    ELSE LET record == Head(records)
         IN  IF record.expert
             THEN AppendExperts([by_tag EXCEPT ![record.tagID] =
                                    Append(@, record.lawyerID)], Tail(records))
             ELSE AppendExperts(by_tag, Tail(records))

\* tag_to_id.get(category, "0"): a name the table lacks falls back to tag id "0"
GroundTruthDefaultsToFirstTag(by_tag, to_id, category) ==
    IF category \notin DOMAIN to_id THEN by_tag["0"] ELSE by_tag[to_id[category]]

\* calculate_ground_truth(data, category), on the two globals
calculate_ground_truth(by_tag, to_id, category) ==
    IF category \notin DOMAIN to_id THEN <<>> ELSE by_tag[to_id[category]]

\* extract_tags_from_csv's default thresholds in the two families of scripts
min_occurrences_cand == 700
min_occurrences_doc == 100

RECURSIVE extract_tags_from_csv(_, _)
extract_tags_from_csv(rows, min_occurrences) ==
    IF rows = <<>> THEN <<>>
    ELSE (IF Head(rows).count_of_occurrences > min_occurrences
          THEN <<Head(rows).stag_name>> ELSE <<>>)
         \o extract_tags_from_csv(Tail(rows), min_occurrences)

\* any(tag.lower() in [t.lower() for t in content.get("tags", [])] for content ...)
TagInData(tag, data) ==
    \E q \in 1..Len(data) : \E t \in 1..Len(data[q].tags) :
        lower_split(data[q].tags[t]) = lower_split(tag)

RECURSIVE ValidTags(_, _)
ValidTags(tags_list, data) ==
    IF tags_list = <<>> THEN <<>>
    ELSE (IF TagInData(Head(tags_list), data) THEN <<Head(tags_list)>> ELSE <<>>)
         \o ValidTags(Tail(tags_list), data)

\* ----------------------------------------------------------- the batch run
\* Python's None, where the model needs it as a value
NoneValue == "None"

VARIABLES
    variant,          \* which of the four scripts runs
    data,             \* data_with_ids.json
    tag_ids_file,     \* tagIDs.json
    selection_file,   \* selection_tags_lawyers_experts.json
    csv_file,         \* all_tags_stat.csv: rows [stag_name, count_of_occurrences]
    experts_by_tag,   \* global
    tag_to_id,        \* global
    pc,               \* where main is: start, loaded, loop, done, error
    expert_answers,   \* main's locals from here on
    statistics,       \* term_frequencies, total_terms, total_answers
    avg_doc_length,
    beta,
    tags,             \* the list the loop runs over (tags, or valid_tags)
    next_tag,         \* position of the loop in tags
    relevant_experts,
    ranking,
    metrics,          \* map_score, mrr_score, p1, p2, p5 of the last query
    totals,           \* total_map, total_mrr, total_p1, total_p2, total_p5
    num_queries,
    averages,         \* avg_map, ... (set when num_queries > 0)
    call,             \* a direct call of one function: its name and arguments
    ret,              \* what the call returned
    last_scroll_id,   \* ElasticSearch.last_scroll_id
    scroll_calls,     \* how many search_all_with_scroll calls the client has finished
    replies,          \* what the server answered to the requests of the last call
    scroll_ret        \* what the last search_all_with_scroll call returned

inputs == <<variant, data, tag_ids_file, selection_file, csv_file>>
globals == <<experts_by_tag, tag_to_id>>
loaded == <<expert_answers, statistics, avg_doc_length, beta, tags>>
per_query == <<relevant_experts, ranking, metrics>>
aggregate == <<totals, num_queries>>
direct == <<call, ret>>
client == <<last_scroll_id, scroll_calls, replies, scroll_ret>>
vars == <<inputs, globals, pc, loaded, next_tag, per_query, aggregate, averages, direct, client>>

ZeroMetrics == [map_score |-> RZero, reciprocal_rank |-> RZero, p1 |-> RZero, p2 |-> RZero, p5 |-> RZero]
NoStatistics == [term_frequencies |-> Counter(<<>>), total_terms |-> 0, total_answers |-> 0]

\* the module's globals and main's locals before main runs, and a client
\* after ElasticSearch.__init__
Fresh ==
    /\ experts_by_tag = [t \in TagIds |-> <<>>]
    /\ tag_to_id = <<>>
    /\ pc = "start"
    /\ expert_answers = <<>>
    /\ statistics = NoStatistics
    /\ avg_doc_length = RZero
    /\ beta = RZero
    /\ tags = <<>>
    /\ next_tag = 1
    /\ relevant_experts = <<>>
    /\ ranking = <<>>
    /\ metrics = ZeroMetrics
    /\ totals = ZeroMetrics
    /\ num_queries = 0
    /\ averages = ZeroMetrics
    /\ call = [fn |-> "none"]
    /\ ret = [err |-> "none"]
    /\ last_scroll_id = NoneValue
    /\ scroll_calls = 0
    /\ replies = <<>>
    /\ scroll_ret = [status |-> "none"]

\* load_ground_truth_files(tag_ids_path, selection_file)
LoadGroundTruth ==
    /\ pc = "start"
    /\ tag_to_id' = InvertTagIds(tag_ids_file)
    /\ experts_by_tag' = AppendExperts(experts_by_tag, selection_file)
    /\ pc' = "loaded"
    /\ UNCHANGED <<inputs, loaded, next_tag, per_query, aggregate, averages, direct, client>>

\* main from the load of the corpus to the tag list
LoadData ==
    /\ pc = "loaded"
    /\ next_tag' = 1
    /\ IF variant \in CandidateLevel
       THEN /\ expert_answers' = load_and_aggregate_data(data)
            /\ tags' = extract_tags_from_csv(csv_file, min_occurrences_cand)
            /\ pc' = "loop"
            /\ UNCHANGED <<statistics, avg_doc_length, beta>>
       ELSE LET st == load_and_calculate_statistics(variant, data)
            IN  /\ statistics' = st
                /\ UNCHANGED expert_answers
                /\ IF st.total_answers = 0
                   THEN \* total_terms / total_answers raises ZeroDivisionError
                        /\ pc' = "error"
                        /\ UNCHANGED <<avg_doc_length, beta, tags>>
                   ELSE /\ pc' = "loop"
                        /\ IF variant = "doc_bm25"
                           THEN /\ avg_doc_length' = Rat(st.total_terms, st.total_answers)
                                /\ UNCHANGED beta
                           ELSE /\ beta' = Rat(st.total_terms, st.total_answers)
                                /\ UNCHANGED avg_doc_length
                        /\ tags' = ValidTags(extract_tags_from_csv(csv_file, min_occurrences_doc), data)
    /\ UNCHANGED <<inputs, globals, per_query, aggregate, averages, direct, client>>

\* the ranking call of the running script
Rank(query) ==
    CASE variant = "cand_bm25" -> rank_experts_bm25(query, expert_answers)
      [] variant = "cand_lm" -> rank_experts(query, expert_answers)
      [] variant = "doc_bm25" ->
            rank_experts_doc_level_bm25(query, data, statistics.term_frequencies, statistics.total_terms, statistics.total_answers, avg_doc_length)
      [] variant = "doc_lm" ->
            rank_experts_doc_level(query, data, statistics.term_frequencies, statistics.total_terms, beta)

SkipsEmpty(v) == v \in DocumentLevel

AddMetrics(t, m) ==
    [map_score |-> RAdd(t.map_score, m.map_score),
     reciprocal_rank |-> RAdd(t.reciprocal_rank, m.reciprocal_rank),
     p1 |-> RAdd(t.p1, m.p1), p2 |-> RAdd(t.p2, m.p2), p5 |-> RAdd(t.p5, m.p5)]

\* one pass of the loop that empties the judged lists it has read (the list
\* calculate_ground_truth returns is the global's own list)
ProcessQueryDrainsJudgments ==
    /\ pc = "loop"
    /\ next_tag <= Len(tags)
    /\ \E tag \in {tags[next_tag]} :
       \E relevant \in {calculate_ground_truth(experts_by_tag, tag_to_id, tag)} :
       \E ranked \in {Rank(tag)} :
       \E m \in {calculate_map_mrr_and_precision(variant, relevant, ranked.val)} :
           /\ relevant_experts' = relevant
           /\ experts_by_tag' = [t \in TagIds |-> <<>>]
           /\ IF SkipsEmpty(variant) /\ relevant = <<>>
              THEN /\ next_tag' = next_tag + 1
                   /\ UNCHANGED <<pc, ranking, metrics, aggregate>>
              ELSE IF ranked.err # "none"
              THEN /\ pc' = "error"
                   /\ UNCHANGED <<next_tag, ranking, metrics, aggregate>>
              ELSE /\ ranking' = ranked.val
                   /\ metrics' = m
                   /\ totals' = AddMetrics(totals, m)
                   /\ num_queries' = num_queries + 1
                   /\ next_tag' = next_tag + 1
                   /\ UNCHANGED pc
    /\ UNCHANGED <<inputs, tag_to_id, loaded, averages, direct, client>>

\* one pass of "for tag in tags"
ProcessQuery ==
    /\ pc = "loop"
    /\ next_tag <= Len(tags)
    /\ \E tag \in {tags[next_tag]} :
       \E relevant \in {calculate_ground_truth(experts_by_tag, tag_to_id, tag)} :
       \E ranked \in {Rank(tag)} :
       \E m \in {calculate_map_mrr_and_precision(variant, relevant, ranked.val)} :
           /\ relevant_experts' = relevant
           /\ IF SkipsEmpty(variant) /\ relevant = <<>>
              THEN \* if not relevant_experts: continue
                   /\ next_tag' = next_tag + 1
                   /\ UNCHANGED <<pc, ranking, metrics, aggregate>>
              ELSE IF ranked.err # "none"
              THEN /\ pc' = "error"
                   /\ UNCHANGED <<next_tag, ranking, metrics, aggregate>>
              ELSE /\ ranking' = ranked.val
                   /\ metrics' = m
                   /\ totals' = AddMetrics(totals, m)
                   /\ num_queries' = num_queries + 1
                   /\ next_tag' = next_tag + 1
                   /\ UNCHANGED pc
    /\ UNCHANGED <<inputs, globals, loaded, averages, direct, client>>

DivideMetrics(t, n) ==
    [map_score |-> RDiv(t.map_score, RInt(n)),
     reciprocal_rank |-> RDiv(t.reciprocal_rank, RInt(n)),
     p1 |-> RDiv(t.p1, RInt(n)), p2 |-> RDiv(t.p2, RInt(n)), p5 |-> RDiv(t.p5, RInt(n))]

\* after the loop: if num_queries > 0, the averages
Finish ==
    /\ pc = "loop"
    /\ next_tag > Len(tags)
    /\ pc' = "done"
    /\ averages' = IF num_queries > 0 THEN DivideMetrics(totals, num_queries) ELSE averages
    /\ UNCHANGED <<inputs, globals, loaded, next_tag, per_query, aggregate, direct, client>>

Next == LoadGroundTruth \/ LoadData \/ ProcessQuery \/ Finish

\* ------------------------------------------------------------------ inputs
CorpusExperts == {"E1", "E2", "E3"}
Docs == {<<>>, <<"tax">>, <<"law">>, <<"tax", "law">>, <<"tax", "tax">>, <<"Tax", "laws">>}
Answers == [attorney_link : CorpusExperts, answer_text : Docs]
AnswerLists == UNION {[1..n -> Answers] : n \in 0..MaxAnswers}

TaxTag == <<"tax">>
CapitalTaxTag == <<"Tax">>
TaxLawTag == <<"Tax", "law">>

Question(question_tags, answers) == [tags |-> question_tags, answers |-> answers]

\* the corpus of a list of answers: the first answer under one question, the
\* others under a second one
CorpusOf(answers) ==
    IF answers = <<>> THEN <<>>
    ELSE IF Len(answers) = 1 THEN <<Question(<<CapitalTaxTag, TaxLawTag>>, answers)>>
    ELSE <<Question(<<CapitalTaxTag>>, SubSeq(answers, 1, 1)),
           Question(<<TaxLawTag>>, SubSeq(answers, 2, Len(answers)))>>

CsvRow(name, count) == [stag_name |-> name, count_of_occurrences |-> count]
SelectionRecord(t, l, e) == [tagID |-> t, lawyerID |-> l, expert |-> e]

\* Ranking runs: every corpus within the bounds, two queries, both judged.
InitRanking ==
    /\ Fresh
    /\ variant \in Variants
    /\ data \in {CorpusOf(answers) : answers \in AnswerLists}
    /\ tag_ids_file = <<<<"0", TaxTag>>, <<"1", TaxLawTag>>>>
    /\ selection_file = <<SelectionRecord("0", "E1", TRUE), SelectionRecord("1", "E2", TRUE), SelectionRecord("1", "E3", FALSE)>>
    /\ csv_file = <<CsvRow(TaxTag, 701), CsvRow(TaxLawTag, 701)>>

SpecRanking == InitRanking /\ [][Next]_vars

\* Batch runs: two corpora, every tag list and judgment stream within the bounds.
BatchCorpus ==
    <<Question(<<CapitalTaxTag>>,
               <<[attorney_link |-> "E1", answer_text |-> <<"tax", "law">>],
                 [attorney_link |-> "E2", answer_text |-> <<"law">>]>>),
      Question(<<TaxLawTag>>,
               <<[attorney_link |-> "E1", answer_text |-> <<"tax">>]>>)>>

CsvRows == {CsvRow(name, count) : name \in {TaxTag, CapitalTaxTag}, count \in {500, 701}}
SelectionRecords == {SelectionRecord("0", l, e) : l \in {"E1", "E9"}, e \in BOOLEAN}

Init ==
    /\ Fresh
    /\ variant \in Variants
    /\ data \in {<<>>, BatchCorpus}
    /\ tag_ids_file = <<<<"0", TaxTag>>, <<"1", TaxLawTag>>>>
    /\ selection_file \in UNION {[1..n -> SelectionRecords] : n \in 0..MaxRecords}
    /\ csv_file \in UNION {[1..n -> CsvRows] : n \in 0..MaxTags}

Spec == Init /\ [][Next]_vars

\* --------------------------------------------- direct calls of one function
\* A script's functions called directly, once, on arguments of the caller's
\* choice: call holds the function and its arguments, ret what it returned.
RankedExperts == {"E1", "E2", "E3", "E4", "E5"}
JudgedExperts == {"E1", "E3", "E9"}

NoDuplicates(s) == \A i, j \in 1..Len(s) : s[i] = s[j] => i = j

\* the rankings a strategy can return: no expert twice; here all scores tie
ExpertOrders ==
    {s \in UNION {[1..n -> RankedExperts] : n \in 0..MaxK} : NoDuplicates(s)}
Rankings == {[i \in 1..Len(s) |-> <<s[i], NZero>>] : s \in ExpertOrders}

\* experts_by_tag's lists: a lawyer id once per record marked expert
RelevantLists == UNION {[1..n -> JudgedExperts] : n \in 0..MaxRelevant}

\* term_frequencies, total_documents and avg_doc_length a caller can pass
TermCounts ==
    {[w \in Words |-> IF w = "tax" THEN t ELSE IF w = "law" THEN l ELSE 0] :
        t, l \in 0..MaxCount}
AvgDocLengths == {RZero, ROne, Rat(3, 2), RInt(2)}
Queries == {TaxTag, TaxLawTag, <<"the">>}

InitFunctions ==
    /\ Fresh
    /\ variant \in Variants
    /\ data = <<>>
    /\ tag_ids_file = <<>>
    /\ selection_file = <<>>
    /\ csv_file = <<>>

unchanged_by_call == <<inputs, globals, pc, loaded, next_tag, per_query, aggregate, averages, client>>

\* calculate_precision_at_k(relevant_experts, ranking, k)
CallPrecisionAtK ==
    /\ call.fn = "none"
    /\ \E rel \in RelevantLists, rk \in Rankings, k \in 0..MaxK :
          /\ call' = [fn |-> "calculate_precision_at_k", relevant_experts |-> rel,
                      ranking |-> rk, k |-> k]
          /\ ret' = calculate_precision_at_k(variant, rel, rk, k)
    /\ UNCHANGED unchanged_by_call

\* calculate_map_mrr_and_precision(relevant_experts, ranking)
CallMapMrr ==
    /\ call.fn = "none"
    /\ \E rel \in RelevantLists, rk \in Rankings :
          /\ call' = [fn |-> "calculate_map_mrr_and_precision",
                      relevant_experts |-> rel, ranking |-> rk]
          /\ ret' = Ok(calculate_map_mrr_and_precision(variant, rel, rk))
    /\ UNCHANGED unchanged_by_call

\* calculate_bm25_score(query, document, term_frequencies, total_documents, avg_doc_length)
CallBm25Score ==
    /\ call.fn = "none"
    /\ variant \in {"cand_bm25", "doc_bm25"}
    /\ \E query \in Queries, document \in Docs, tf \in TermCounts,
          n \in 0..MaxCount, avg \in AvgDocLengths :
          /\ call' = [fn |-> "calculate_bm25_score", query |-> query,
                      document |-> document, term_frequencies |-> tf,
                      total_documents |-> n, avg_doc_length |-> avg]
          /\ ret' = calculate_bm25_score(query, document, tf, n, avg)
    /\ UNCHANGED unchanged_by_call

NextFunctions == CallPrecisionAtK \/ CallMapMrr \/ CallBm25Score

SpecFunctions == InitFunctions /\ [][NextFunctions]_vars

\* -------------------------------------------------------- elastic client
\* len(hits) >= 10000: the page is full and another one is requested
PageFull == 10000

ScrollIds == {"s1", "s2"}
PageSizes == {0, PageFull - 1, PageFull, PageFull + 1}

\* what es.search or es.scroll does: raise, or answer with a scroll id and hits
Raised == [err |-> "Exception"]
Page(scroll_id, hits) == [err |-> "none", scroll_id |-> scroll_id, hits |-> hits]
Replies == {Raised} \cup {Page(id, n) : id \in ScrollIds, n \in PageSizes}

IsFullPage(reply) == reply.err = "none" /\ reply.hits >= PageFull

\* the answers to the requests of one call: full pages, then the request that
\* ends the call with a short page or an exception
ReplyScripts ==
    {s \in UNION {[1..n -> Replies] : n \in 1..(MaxPages + 1)} :
        /\ \A i \in 1..(Len(s) - 1) : IsFullPage(s[i])
        /\ ~IsFullPage(s[Len(s)])}

\* except Exception as e: print(...), and the method returns None
Caught(scroll_id) == [last_scroll_id |-> scroll_id, ret |-> [status |-> "caught"]]

\* if not there_is_next_page: self.last_scroll_id = None; return resp
Returned(resp) == [last_scroll_id |-> NoneValue, ret |-> [status |-> "returned", resp |-> resp]]

RECURSIVE ScrollLoop(_, _, _, _)
\* while there_is_next_page: es.scroll(scroll_id=self.last_scroll_id), extend resp
ScrollLoop(scroll_id, resp, there_is_next_page, server) ==
    IF ~there_is_next_page THEN Returned(resp)
    ELSE LET resp_scroll == Head(server)
         IN  IF resp_scroll.err # "none" THEN Caught(scroll_id)
             ELSE ScrollLoop(resp_scroll.scroll_id,
                             [resp EXCEPT !.hits = @ + resp_scroll.hits],
                             resp_scroll.hits >= PageFull, Tail(server))

\* ElasticSearch.search_all_with_scroll on a client whose last_scroll_id is
\* scroll_id, the server answering the requests with the replies of server
search_all_with_scroll(scroll_id, server) ==
    LET resp == Head(server)
    IN  IF resp.err # "none" THEN Caught(scroll_id)
        ELSE ScrollLoop(resp.scroll_id, [scroll_id |-> resp.scroll_id, hits |-> resp.hits],
                        resp.hits >= PageFull, Tail(server))

SearchAllWithScroll ==
    /\ scroll_calls < MaxCalls
    /\ \E server \in ReplyScripts :
       \E result \in {search_all_with_scroll(last_scroll_id, server)} :
           /\ replies' = server
           /\ last_scroll_id' = result.last_scroll_id
           /\ scroll_ret' = result.ret
    /\ scroll_calls' = scroll_calls + 1
    /\ UNCHANGED <<inputs, globals, pc, loaded, next_tag, per_query, aggregate, averages, direct>>

\* a client after ElasticSearch.__init__; no script runs
InitClient ==
    /\ Fresh
    /\ variant = "cand_bm25"
    /\ data = <<>>
    /\ tag_ids_file = <<>>
    /\ selection_file = <<>>
    /\ csv_file = <<>>

NextClient == SearchAllWithScroll

SpecClient == InitClient /\ [][NextClient]_vars

\* ------------------------------------------------- properties of a ranking
\* the query the last pass of the loop ranked, and whether that pass ranked
LastQuery == tags[next_tag - 1]
Ranked ==
    /\ pc \in {"loop", "done"}
    /\ next_tag > 1
    /\ (variant \in CandidateLevel \/ relevant_experts # <<>>)

\* position in the corpus of the first answer of an expert
FirstEncounter(expert_id) ==
    CHOOSE i \in 1..Len(AllAnswers(data)) :
        /\ AllAnswers(data)[i].attorney_link = expert_id
        /\ \A j \in 1..(i - 1) : AllAnswers(data)[j].attorney_link # expert_id

\* the texts of the answers of an expert, in corpus order
RECURSIVE AnswersOf(_, _)
AnswersOf(expert_id, answers) ==
    IF answers = <<>> THEN <<>>
    ELSE (IF Head(answers).attorney_link = expert_id
          THEN <<Head(answers).answer_text>> ELSE <<>>)
         \o AnswersOf(expert_id, Tail(answers))

\* C1: the ranking a strategy returns is the stable descending sort by score:
\* scores never increase along the rank index, and two experts with equal
\* scores stand in the order in which the corpus first mentions them.
C1_StableDescendingSort ==
    Ranked =>
        \A i, j \in 1..Len(ranking) :
            i < j =>
                /\ ~NLess(ranking[i][2], ranking[j][2])
                /\ ranking[i][2] = ranking[j][2] =>
                       FirstEncounter(ranking[i][1]) < FirstEncounter(ranking[j][1])

\* a ranking of two experts that the sort had to reorder: the expert the
\* corpus mentions second scores strictly higher and is ranked first
C1_Witness ==
    /\ Ranked
    /\ Len(ranking) = 2
    /\ NLess(ranking[2][2], ranking[1][2])
    /\ FirstEncounter(ranking[2][1]) < FirstEncounter(ranking[1][1])

\* C8: a ranking holds every expert with at least one answer in the corpus
\* exactly once.
C8_EveryExpertOnce ==
    Ranked =>
        /\ {ranking[i][1] : i \in 1..Len(ranking)}
               = {AllAnswers(data)[i].attorney_link : i \in 1..Len(AllAnswers(data))}
        /\ \A i, j \in 1..Len(ranking) : ranking[i][1] = ranking[j][1] => i = j

\* a corpus of two answers by the same expert, who is ranked once
C8_Witness ==
    /\ Ranked
    /\ Len(AllAnswers(data)) = 2
    /\ AllAnswers(data)[1].attorney_link = AllAnswers(data)[2].attorney_link
    /\ Len(ranking) = 1

\* what the candidate-level BM25 script computes its statistics from
ProfileWords == Flatten([i \in 1..Len(expert_answers) |-> Profile(expert_answers[i][2])])

\* one BM25 score over the concatenation of all answers of the expert
ProfileScore(expert_id) ==
    calculate_bm25_score(LastQuery, Profile(Lookup(expert_answers, expert_id)),
                         Counter(ProfileWords), Len(expert_answers),
                         Rat(Len(ProfileWords), Len(expert_answers))).val

\* C6: rank_experts_bm25 gives each expert one BM25 score computed over the
\* concatenation of all of the expert's answers, the document length being the
\* length of the whole profile; it does not combine per-answer scores.
C6_SingleScoreOverProfile ==
    (Ranked /\ variant = "cand_bm25") =>
        \A i \in 1..Len(ranking) : ranking[i][2] = ProfileScore(ranking[i][1])

\* the scores of the answers of an expert under the running document-level script
AnswerScores(expert_id) ==
    LET texts == AnswersOf(expert_id, AllAnswers(data))
    IN  [i \in 1..Len(texts) |->
            IF variant = "doc_bm25"
            THEN calculate_bm25_score(LastQuery, texts[i], statistics.term_frequencies,
                                      statistics.total_answers, avg_doc_length).val
            ELSE calculate_document_score(LastQuery, texts[i], statistics.term_frequencies,
                                          statistics.total_terms, beta).val]

\* C7: in both document-level strategies the score of an expert is the
\* arithmetic mean of the scores of all answers of that expert: the score
\* times the number of answers is the sum of the answers' scores.
C7_MeanOfAnswerScores ==
    (Ranked /\ variant \in DocumentLevel) =>
        \A i \in 1..Len(ranking) :
            \E scores \in {AnswerScores(ranking[i][1])} :
                NScale(RInt(Len(scores)), ranking[i][2]) = NSum(scores)

\* an expert with two answers of different scores: the mean is neither the
\* larger of the two nor their sum
C7_Witness ==
    /\ Ranked
    /\ variant \in DocumentLevel
    /\ Len(ranking) = 1
    /\ \E scores \in {AnswerScores(ranking[1][1])} :
          /\ Len(scores) = 2
          /\ NLess(scores[1], scores[2])
          /\ NLess(scores[1], ranking[1][2])
          /\ NLess(ranking[1][2], scores[2])

\* C10: in the language-model strategies the score of every expert is
\* strictly positive for every query, also when a query term occurs neither
\* in the expert's (or the document's) text nor in the collection.
C10_LmScoresPositive ==
    (Ranked /\ variant \in {"cand_lm", "doc_lm"}) =>
        \A i \in 1..Len(ranking) : NPositive(ranking[i][2])

\* a query term the corpus never contains ("law" in a corpus that has answers
\* but not this word): the score is positive and a multiple of 1e-10
C10_Witness ==
    /\ Ranked
    /\ variant \in {"cand_lm", "doc_lm"}
    /\ LastQuery = TaxLawTag
    /\ \A i \in 1..Len(AllAnswers(data)) :
          /\ AllAnswers(data)[i].answer_text # <<>>
          /\ ~InSeq("law", AllAnswers(data)[i].answer_text)
    /\ ranking # <<>>
    /\ \A i \in 1..Len(ranking) :
          /\ NPositive(ranking[i][2])
          /\ ranking[i][2][1] = RZero

\* ------------------------------------------------ properties of a batch run
\* the positions of the tag list whose relevant collection is not empty
JudgedQueries ==
    {i \in 1..Len(tags) :
        calculate_ground_truth(experts_by_tag, tag_to_id, tags[i]) # <<>>}

\* C5: in the batch run of each of the four variants a query with an empty
\* relevant set is skipped, so a finished run has counted exactly the queries
\* whose relevant set is not empty.
C5_EmptyRelevantSkipped ==
    pc = "done" => num_queries = Cardinality(JudgedQueries)

\* ----------------------------------------------- properties of direct calls
\* the ranks (1-based) of a ranking whose expert is in the relevant set
HitRanks(rel, rk) == {r \in 1..Len(rk) : rk[r][1] \in SeqRange(rel)}

\* (number of relevant experts at ranks 1..r) / r at every hit, 0 elsewhere
PrecisionsAtHits(rel, rk) ==
    [r \in 1..Len(rk) |->
        IF r \in HitRanks(rel, rk)
        THEN Rat(Cardinality({q \in HitRanks(rel, rk) : q <= r}), r)
        ELSE RZero]

RECURSIVE RSum(_)
RSum(rs) == IF rs = <<>> THEN RZero ELSE RAdd(Head(rs), RSum(Tail(rs)))

ExpertsOf(rk) == [i \in 1..Len(rk) |-> rk[i][1]]

\* C2: for a relevant set (a list without repeated experts) MAP is the sum,
\* over the ranks whose expert is relevant, of (relevant experts at ranks
\* 1..r) / r, divided by the size of the relevant set, whether or not all of
\* its experts occur in the ranking; 0 for the empty relevant set; and 1/2
\* for the relevant set {E1, E3} and the ranking E2, E1, E4, E3, E5.
C2_MapFormula ==
    (call.fn = "calculate_map_mrr_and_precision" /\ NoDuplicates(call.relevant_experts)) =>
        \E rel \in {call.relevant_experts} : \E sum \in {RSum(PrecisionsAtHits(rel, call.ranking))} :
            /\ ret.err = "none"
            /\ ret.val.map_score =
                   IF SeqRange(rel) = {} THEN RZero
                   ELSE RDiv(sum, RInt(Cardinality(SeqRange(rel))))
            /\ (/\ SeqRange(rel) = {"E1", "E3"}
                /\ ExpertsOf(call.ranking) = <<"E2", "E1", "E4", "E3", "E5">>)
                   => ret.val.map_score = Rat(1, 2)

\* the example of the specification has been computed
C2_Witness ==
    /\ call.fn = "calculate_map_mrr_and_precision"
    /\ call.relevant_experts = <<"E1", "E3">>
    /\ ExpertsOf(call.ranking) = <<"E2", "E1", "E4", "E3", "E5">>
    /\ ret.val.map_score = Rat(1, 2)

\* C3: MRR is 1 / r for the rank r of the first expert of the ranking that is
\* relevant, and 0 when no expert of the ranking is relevant (also for an
\* empty ranking or an empty relevant set); later hits do not change it.
C3_MrrFirstHit ==
    call.fn = "calculate_map_mrr_and_precision" =>
        \E hits \in {HitRanks(call.relevant_experts, call.ranking)} :
            /\ ret.err = "none"
            /\ ret.val.reciprocal_rank =
                   IF hits = {} THEN RZero
                   ELSE Rat(1, CHOOSE r \in hits : \A q \in hits : r <= q)

\* two hits, the first of them at rank 2: the value is 1/2
C3_Witness ==
    /\ call.fn = "calculate_map_mrr_and_precision"
    /\ HitRanks(call.relevant_experts, call.ranking) = {2, 4}
    /\ ret.val.reciprocal_rank = Rat(1, 2)

\* C4: for k > 0 and a ranking without repeated experts (also one shorter
\* than k), calculate_precision_at_k returns (relevant experts among the
\* first k entries) / k, a value in [0, 1].
C4_PrecisionAtK ==
    (call.fn = "calculate_precision_at_k" /\ call.k > 0) =>
        /\ ret.err = "none"
        /\ ret.val = Rat(Cardinality({r \in HitRanks(call.relevant_experts, call.ranking) :
                                         r <= call.k}), call.k)
        /\ RLeq(RZero, ret.val)
        /\ RLeq(ret.val, ROne)

\* a ranking shorter than k with a hit: the divisor is k, not the length
C4_Witness ==
    /\ call.fn = "calculate_precision_at_k"
    /\ call.k = 5
    /\ Len(call.ranking) = 2
    /\ Cardinality(HitRanks(call.relevant_experts, call.ranking)) = 2
    /\ ret.val = Rat(2, 5)

\* C9: calculate_bm25_score returns exactly 0 for a document that contains
\* none of the query's terms, whatever the document's length (the empty
\* document included) and whatever statistics are passed.
C9_NoSharedTermScoresZero ==
    (/\ call.fn = "calculate_bm25_score"
     /\ \A i \in 1..Len(preprocess_text(call.query)) :
            ~InSeq(preprocess_text(call.query)[i], call.document)) =>
        /\ ret.err = "none"
        /\ ret.val = NZero

\* a document that is not empty, without the query's term, scored with
\* statistics that claim the term is frequent and the average length is 0
C9_Witness ==
    /\ call.fn = "calculate_bm25_score"
    /\ call.query = TaxTag
    /\ call.document = <<"Tax", "laws">>
    /\ call.term_frequencies["tax"] = MaxCount
    /\ call.avg_doc_length = RZero
    /\ ret = Ok(NZero)

\* ------------------------------------------- properties of the ground truth
\* the tag names a query can carry
TagNames == {TaxTag, CapitalTaxTag, TaxLawTag}

\* C11: the ground-truth resolver matches tags case-insensitively: two tag
\* names that differ only in letter case resolve to the same relevant experts.
C11_CaseInsensitiveGroundTruth ==
    pc # "start" =>
        \A t1, t2 \in TagNames :
            lower_split(t1) = lower_split(t2) =>
                calculate_ground_truth(experts_by_tag, tag_to_id, t1)
                    = calculate_ground_truth(experts_by_tag, tag_to_id, t2)

\* no record of the judgment stream marks an expert for an id the tag-id
\* table gives this name (true also of a name the table does not hold)
NoJudgedExpert(name) ==
    \A i \in 1..Len(tag_ids_file) :
        tag_ids_file[i][2] = name =>
            \A r \in 1..Len(selection_file) :
                ~(selection_file[r].tagID = tag_ids_file[i][1] /\ selection_file[r].expert)

\* C12: calculate_ground_truth returns an empty collection, and no error, for
\* a tag name the tag-id table lacks and for a tag whose id has no record
\* marked expert in the judgment stream.
C12_UnknownTagEmpty ==
    pc # "start" =>
        \A name \in TagNames :
            NoJudgedExpert(name) =>
                calculate_ground_truth(experts_by_tag, tag_to_id, name) = <<>>

\* the loop resolved "Tax", a name the table lacks, while the table's tag
\* "tax" has judged experts: the relevant list is empty and the run goes on
C12_Witness ==
    /\ pc = "loop"
    /\ next_tag > 1
    /\ LastQuery = CapitalTaxTag
    /\ experts_by_tag["0"] # <<>>
    /\ relevant_experts = <<>>

\* C18: the relevant-expert collection of a tag holds each lawyer id at most
\* once, whatever the judgment record stream.
C18_RelevantWithoutRepeats ==
    pc # "start" =>
        \A name \in TagNames :
            NoDuplicates(calculate_ground_truth(experts_by_tag, tag_to_id, name))

\* --------------------------------------------------- properties of failures
\* C13: calculate_precision_at_k called with k = 0 fails in every variant: it
\* yields no number.
C13_PrecisionAtZeroFails ==
    (call.fn = "calculate_precision_at_k" /\ call.k = 0) => ret.err # "none"

\* C14: on a corpus without documents every variant fails with an error where
\* total_terms / total_documents is needed: no query of the batch run gets a
\* ranking or metrics.
C14_EmptyCorpusFails ==
    data = <<>> => (next_tag = 1 /\ num_queries = 0 /\ ranking = <<>> /\ metrics = ZeroMetrics)

\* the corpus holds an answer whose text has no word
HasEmptyDocument ==
    \E i \in 1..Len(AllAnswers(data)) : AllAnswers(data)[i].answer_text = <<>>

\* C15: in all four strategies scoring a document of zero length (or an
\* expert without documents) never divides by zero: the ranking call
\* completes, so a run over a corpus with such a document raises no error.
C15_EmptyDocumentNoDivision ==
    HasEmptyDocument => pc # "error"

\* C16: with the files loaded and a corpus that is not empty, the batch loop
\* visits the tags of its list one by one, in order, and ends: a step of the
\* loop moves to the next tag or finishes the run, it never aborts it.
C16_LoopNeverAborts ==
    [][(pc = "loop" /\ data # <<>>) =>
          \/ (pc' = "loop" /\ next_tag <= Len(tags) /\ next_tag' = next_tag + 1)
          \/ (pc' = "done" /\ next_tag = Len(tags) + 1 /\ next_tag' = next_tag)]_vars

\* ------------------------------------------------ properties of the frame
\* the ranking of a query by a run that has just loaded its files
FreshRanking(query) ==
    CASE variant = "cand_bm25" -> rank_experts_bm25(query, load_and_aggregate_data(data))
      [] variant = "cand_lm" -> rank_experts(query, load_and_aggregate_data(data))
      [] variant = "doc_bm25" ->
            LET st == load_and_calculate_statistics(variant, data)
            IN  rank_experts_doc_level_bm25(query, data, st.term_frequencies, st.total_terms, st.total_answers, Rat(st.total_terms, st.total_answers))
      [] variant = "doc_lm" ->
            LET st == load_and_calculate_statistics(variant, data)
            IN  rank_experts_doc_level(query, data, st.term_frequencies, st.total_terms, Rat(st.total_terms, st.total_answers))

\* the relevant experts of a query by a run that has just loaded its files
FreshRelevant(query) ==
    calculate_ground_truth(AppendExperts([t \in TagIds |-> <<>>], selection_file),
                           InvertTagIds(tag_ids_file), query)

\* C17: processing queries leaves the corpus, the per-expert answer lists, the
\* term statistics and the two ground-truth tables as they were loaded, and
\* the ranking and the metrics of a query are those of a run that processes
\* this query first.
C17_QueriesLeaveStateUnchanged ==
    pc \in {"loop", "done"} =>
        /\ tag_to_id = InvertTagIds(tag_ids_file)
        /\ experts_by_tag = AppendExperts([t \in TagIds |-> <<>>], selection_file)
        /\ variant \in CandidateLevel => expert_answers = load_and_aggregate_data(data)
        /\ variant \in DocumentLevel =>
               statistics = load_and_calculate_statistics(variant, data)
        /\ Ranked =>
               \E fresh \in {FreshRanking(LastQuery)} :
               \E relevant \in {FreshRelevant(LastQuery)} :
                   /\ ranking = fresh.val
                   /\ relevant_experts = relevant
                   /\ metrics = calculate_map_mrr_and_precision(variant, relevant, fresh.val)

\* the second of two different queries, "tax" after "Tax", with a judged
\* expert found by the ranking
C17_Witness ==
    /\ Ranked
    /\ next_tag = 3
    /\ tags = <<CapitalTaxTag, TaxTag>>
    /\ relevant_experts # <<>>
    /\ ranking # <<>>
    /\ metrics.reciprocal_rank # RZero

\* ------------------------------------------------ properties of the numbers
\* the count the running BM25 script passes as document frequency of a word
DocumentFrequency(w) ==
    IF variant = "cand_bm25" THEN Counter(ProfileWords)[w]
    ELSE statistics.term_frequencies[w]

\* the number of documents the running BM25 script passes to the same formula
TotalDocuments ==
    IF variant = "cand_bm25" THEN Len(expert_answers) ELSE statistics.total_answers

\* C19: in both BM25 variants the count used as df(term) never exceeds the
\* number of documents N, and every BM25 score of a ranking is non-negative.
C19_DfAtMostNScoresNonNegative ==
    (pc \in {"loop", "done"} /\ variant \in {"cand_bm25", "doc_bm25"}) =>
        /\ \A w \in Words : DocumentFrequency(w) <= TotalDocuments
        /\ Ranked => \A i \in 1..Len(ranking) : ~NLess(ranking[i][2], NZero)

\* the candidate-level language model's statistics, as rank_experts computes them
ExpertScore(term, expert_id) ==
    calculate_expert_score(term, expert_id, expert_answers, Counter(ProfileWords),
                           Len(ProfileWords))

\* C20: in the candidate-level language model calculate_expert_score returns
\* a value in [0,1] for every term and every expert, and so does the query score.
C20_ExpertScoreIsProbability ==
    (pc \in {"loop", "done"} /\ variant = "cand_lm") =>
        /\ \A w \in Words : \A i \in 1..Len(expert_answers) :
               /\ RLeq(RZero, ExpertScore(w, expert_answers[i][1]))
               /\ RLeq(ExpertScore(w, expert_answers[i][1]), ROne)
        /\ Ranked => \A i \in 1..Len(ranking) :
               /\ NLeq(NZero, ranking[i][2])
               /\ NLeq(ranking[i][2], NOne)

\* ------------------------------------------------ properties of the client
\* C21: whenever search_all_with_scroll has finished, by returning the
\* accumulated response or by catching the exception of a search or scroll
\* request, last_scroll_id is None again.
C21_ScrollIdClearedWhenFinished ==
    scroll_calls > 0 => last_scroll_id = NoneValue

====
